---- MODULE Spec2Model ----
(***************************************************************************)
(* Model of package promtest (collect.go): CollectMetrics / CollectMetric, *)
(* matches, GetMetric, AssertEquals and AssertSummarySampleCount.          *)
(*                                                                         *)
(* Strings are sequences of one-character strings, so that                 *)
(* strings.SplitN(s, "=", 2) is computed on the characters.  A Go pointer  *)
(* such as a label name or a counter is Nil (the empty tuple) or Ptr(v) (a *)
(* one-element tuple), so a missing label name differs from the empty      *)
(* name.                                                                   *)
(***************************************************************************)
EXTENDS Integers, Sequences, FiniteSets, TLC

VARIABLES
    op,             \* the exported function being called
    pc,             \* position of the calling goroutine
    wpc,            \* position of the goroutine spawned at collect.go:149
    expected,       \* argument `expected` of the assertions
    labels,         \* argument `labels` / `expectedLabels` (the filter)
    sample,         \* argument `m` of a direct call of matches
    pushed,         \* handles metric.Collect has sent on `metrics` so far
    m,              \* loop variable `m` of the worker (collect.go:150)
    closed,         \* whether channel `metrics` has been closed
    done,           \* contents of channel `done` (capacity 1)
    result,         \* local `result` of CollectMetrics, shared with the worker
    allLabels,      \* value returned by CollectMetrics to its caller
    filteredLabels, \* local `filteredLabels` of the assertions
    idx,            \* number of iterations of the aggregation loop completed
    actualValue,    \* local `actualValue` of the assertions
    ret,            \* Nil until the call returns a value, then Ptr(value)
    reporter        \* calls made on the Reporter, in order

vars == <<op, pc, wpc, expected, labels, sample, pushed, m, closed, done,
          result, allLabels, filteredLabels, idx, actualValue, ret, reporter>>

-----------------------------------------------------------------------------
(* Bounds of the model *)

\* most handles a collector pushes in one Collect
MaxHandles == 2
\* most entries of a filter
MaxFilter == 2
\* most labels of a sample handed directly to matches
MaxLabels == 2

-----------------------------------------------------------------------------
(* Data *)

Nil == <<>>
Ptr(v) == <<v>>
Deref(p) == p[1]

RECURSIVE SeqsUpTo(_, _)
SeqsUpTo(S, n) ==
    IF n = 0 THEN {<<>>}
    ELSE LET shorter == SeqsUpTo(S, n - 1)
         IN  shorter \cup {Append(s, x) : s \in {t \in shorter : Len(t) = n - 1}, x \in S}

\* dto.LabelPair
LabelPair(name, value) == [Name |-> name, Value |-> value]

\* dto.Metric
Metric(label, counter, gauge, summary) ==
    [Label |-> label, Counter |-> counter, Gauge |-> gauge, Summary |-> summary]

\* new(dto.Metric)
NewMetric == Metric(<<>>, Nil, Nil, Nil)

\* A prometheus.Metric handle: `out` is what its Write stores into the
\* dto.Metric it is given, `err` whether Write returns an error.
Handle(out, err) == [out |-> out, err |-> err]

\* Reporter calls
EvCollectError == "Errorf: Failed to collect metric"
EvFormatError  == "Error: metrics labels should have two parts"
EvNotFound     == "Logf: label not found"
EvFatalType    == "Fatal: wrong metric type"
EvMismatch     == "Errorf: Expected metric to have another value"

methodGET  == <<LabelPair(Ptr(<<"m">>), Ptr(<<"G">>))>>
methodPOST == <<LabelPair(Ptr(<<"m">>), Ptr(<<"P">>))>>
opWrite    == <<LabelPair(Ptr(<<"o">>), Ptr(<<"w">>))>>

\* The handles the modelled collectors push.
Handles ==
    { Handle(Metric(methodGET,  Ptr(3), Nil, Nil), FALSE),   \* counter {method:GET} 3
      Handle(Metric(methodPOST, Ptr(2), Nil, Nil), FALSE),   \* counter {method:POST} 2
      Handle(Metric(methodGET,  Nil, Ptr(2), Nil), FALSE),   \* gauge {method:GET} 2
      Handle(Metric(opWrite,    Nil, Nil, Ptr(7)), FALSE),   \* summary {op:write}, 7 samples
      Handle(Metric(methodGET,  Nil, Nil, Ptr(3)), FALSE),   \* summary {method:GET}, 3 samples
      Handle(Metric(methodPOST, Nil, Nil, Nil), FALSE),      \* histogram/untyped {method:POST}
      Handle(NewMetric, TRUE),                               \* Write fails, nothing written
      Handle(Metric(methodGET, Ptr(3), Nil, Nil), TRUE) }    \* Write fails after writing

\* Filter entries of the calls that collect.
FilterEntries ==
    { <<"m", "=", "G">>, <<"o", "=", "w">>, <<"x">> }

Filters == SeqsUpTo(FilterEntries, MaxFilter)

ExpectedValues == {0, 1, 3, 5, 7}

\* Inputs of a direct call of matches.
MatchEntries ==
    { <<>>, <<"a">>, <<"a", "=", "b">>, <<"a", "=">>, <<"=">>,
      <<"a", "=", "=", "b">>, <<"b", "=", "a">> }

MatchLabelPairs ==
    { LabelPair(Ptr(<<"a">>), Ptr(<<"b">>)),
      LabelPair(Ptr(<<"a">>), Ptr(<<>>)),
      LabelPair(Ptr(<<>>), Ptr(<<>>)),
      LabelPair(Nil, Ptr(<<"b">>)),
      LabelPair(Ptr(<<"a">>), Nil),
      LabelPair(Ptr(<<"a">>), Ptr(<<"=", "b">>)),
      LabelPair(Ptr(<<"a", "=">>), Ptr(<<"b">>)),
      LabelPair(Ptr(<<"b">>), Ptr(<<"a">>)) }

MatchFilters == SeqsUpTo(MatchEntries, MaxFilter)
MatchSamples == {Metric(l, Nil, Nil, Nil) : l \in SeqsUpTo(MatchLabelPairs, MaxLabels)}

-----------------------------------------------------------------------------
(* strings.SplitN(s, "=", 2) *)

SplitNLast(s) ==
    IF \E i \in 1..Len(s) : s[i] = "="
    THEN LET i == CHOOSE i \in 1..Len(s) :
                      s[i] = "=" /\ \A j \in (i + 1)..Len(s) : s[j] # "="
         IN  <<SubSeq(s, 1, i - 1), SubSeq(s, i + 1, Len(s))>>
    ELSE <<s>>

SplitN(s) ==
    IF \E i \in 1..Len(s) : s[i] = "="
    THEN LET i == CHOOSE i \in 1..Len(s) :
                      s[i] = "=" /\ \A j \in 1..(i - 1) : s[j] # "="
         IN  <<SubSeq(s, 1, i - 1), SubSeq(s, i + 1, Len(s))>>
    ELSE <<s>>

(* matches: the inner loop over m.Label (collect.go:122-131) *)
RECURSIVE findLabelFrom(_, _, _, _)
findLabelFrom(Label, k, expectedName, expectedValue) ==
    IF k > Len(Label) THEN FALSE
    ELSE LET l == Label[k]
         IN  IF l.Name = Nil \/ l.Value = Nil
             THEN findLabelFrom(Label, k + 1, expectedName, expectedValue)
             ELSE IF Deref(l.Name) = expectedName /\ Deref(l.Value) = expectedValue
                  THEN TRUE
                  ELSE findLabelFrom(Label, k + 1, expectedName, expectedValue)

findLabelNameOnly(Label, expectedName, expectedValue) ==
    \E k \in DOMAIN Label : Label[k].Name # Nil /\ Deref(Label[k].Name) = expectedName

findLabel(Label, expectedName, expectedValue) ==
    findLabelFrom(Label, 1, expectedName, expectedValue)

(* matches: the loop over expectedLabels (collect.go:112-139).  The value  *)
(* is the returned bool and the Reporter calls made.                       *)
RECURSIVE matchesFrom(_, _, _)
matchesFrom(metric, expectedLabels, i) ==
    IF i > Len(expectedLabels) THEN [ret |-> TRUE, events |-> <<>>]
    ELSE LET parts == SplitN(expectedLabels[i])
         IN  IF Len(parts) # 2
             THEN [ret |-> FALSE, events |-> <<EvFormatError>>]
             ELSE IF ~findLabel(metric.Label, parts[1], parts[2])
                  THEN [ret |-> FALSE, events |-> <<EvNotFound>>]
                  ELSE matchesFrom(metric, expectedLabels, i + 1)

RECURSIVE matchesSkipMalformedFrom(_, _, _)
matchesSkipMalformedFrom(metric, expectedLabels, i) ==
    IF i > Len(expectedLabels) THEN [ret |-> TRUE, events |-> <<>>]
    ELSE LET parts == SplitN(expectedLabels[i])
         IN  IF Len(parts) # 2
             THEN matchesSkipMalformedFrom(metric, expectedLabels, i + 1)
             ELSE IF ~findLabel(metric.Label, parts[1], parts[2])
                  THEN [ret |-> FALSE, events |-> <<EvNotFound>>]
                  ELSE matchesSkipMalformedFrom(metric, expectedLabels, i + 1)

matchesSkipMalformed(metric, expectedLabels) ==
    matchesSkipMalformedFrom(metric, expectedLabels, 1)

matches(metric, expectedLabels) == matchesFrom(metric, expectedLabels, 1)

(* CollectMetric (collect.go:168-176): the returned dto.Metric pointer and *)
(* the Reporter calls made.  The metric is returned whether or not Write   *)
(* failed.                                                                 *)
CollectMetric(h) ==
    [metric |-> Ptr(h.out),
     events |-> IF h.err THEN <<EvCollectError>> ELSE <<>>]

-----------------------------------------------------------------------------
(* State machine *)

Init ==
    /\ op = "none"
    /\ pc = "idle"
    /\ wpc = "none"
    /\ expected = 0
    /\ labels = <<>>
    /\ sample = NewMetric
    /\ pushed = <<>>
    /\ m = Nil
    /\ closed = FALSE
    /\ done = <<>>
    /\ result = <<>>
    /\ allLabels = <<>>
    /\ filteredLabels = <<>>
    /\ idx = 0
    /\ actualValue = 0
    /\ ret = Nil
    /\ reporter = <<>>

collectVars == <<pushed, m, closed, done, result, allLabels, wpc>>
assertVars  == <<filteredLabels, idx, actualValue>>

\* A direct call matches(t, sample, labels).
CallMatches ==
    /\ pc = "idle"
    /\ \E s \in MatchSamples, f \in MatchFilters :
          LET r == matches(s, f)
          IN  /\ sample' = s
              /\ labels' = f
              /\ ret' = Ptr(r.ret)
              /\ reporter' = reporter \o r.events
    /\ op' = "matches"
    /\ pc' = "done"
    /\ UNCHANGED <<expected, collectVars, assertVars>>

\* CollectMetrics(t, metric) is called on its own.
CallCollectMetrics ==
    /\ pc = "idle"
    /\ op' = "CollectMetrics"
    /\ pc' = "go"
    /\ UNCHANGED <<expected, labels, sample, collectVars, assertVars, ret, reporter>>

\* collect.go:145-157: make the channels and start the worker goroutine.
Go ==
    /\ pc = "go"
    /\ wpc' = "range"
    /\ pc' = "collect"
    /\ UNCHANGED <<op, expected, labels, sample, pushed, m, closed, done, result,
                   allLabels, assertVars, ret, reporter>>

\* metric.Collect(metrics) sends one handle; `metrics` is unbuffered, so the
\* send completes together with the worker's receive at collect.go:150.
Push ==
    /\ pc = "collect"
    /\ wpc = "range"
    /\ ~closed
    /\ Len(pushed) < MaxHandles
    /\ \E h \in Handles :
          /\ pushed' = Append(pushed, h)
          /\ m' = Ptr(h)
    /\ wpc' = "convert"
    /\ UNCHANGED <<op, pc, expected, labels, sample, closed, done, result,
                   allLabels, assertVars, ret, reporter>>

\* metric.Collect(metrics) returns (collect.go:159).
CollectReturn ==
    /\ pc = "collect"
    /\ pc' = "close"
    /\ UNCHANGED <<op, expected, labels, sample, collectVars, assertVars, ret, reporter>>

\* close(metrics) (collect.go:160).
CloseNoop ==
    /\ pc = "close"
    /\ pc' = "join"
    /\ UNCHANGED <<op, expected, labels, sample, collectVars, assertVars, ret, reporter>>

Close ==
    /\ pc = "close"
    /\ closed' = TRUE
    /\ pc' = "join"
    /\ UNCHANGED <<op, expected, labels, sample, pushed, m, done, result, allLabels,
                   wpc, assertVars, ret, reporter>>

\* Worker, loop body (collect.go:151-154).
WorkerConvert ==
    /\ wpc = "convert"
    /\ LET r == CollectMetric(Deref(m))
       IN  /\ result' = IF r.metric # Nil THEN Append(result, Deref(r.metric)) ELSE result
           /\ reporter' = reporter \o r.events
    /\ m' = Nil
    /\ wpc' = "range"
    /\ UNCHANGED <<op, pc, expected, labels, sample, pushed, closed, done,
                   allLabels, assertVars, ret>>

\* Worker: the range ends on the closed channel, then done <- true
\* (collect.go:150, 156).  `done` has capacity 1 and is empty, so the send
\* does not block.
WorkerExit ==
    /\ wpc = "range"
    /\ closed
    /\ Len(done) < 1
    /\ done' = Append(done, TRUE)
    /\ wpc' = "finished"
    /\ UNCHANGED <<op, pc, expected, labels, sample, pushed, m, closed, result,
                   allLabels, assertVars, ret, reporter>>

\* <-done (collect.go:161).
JoinNoWait ==
    /\ pc = "join"
    /\ pc' = "return"
    /\ UNCHANGED <<op, expected, labels, sample, collectVars, assertVars, ret, reporter>>

Join ==
    /\ pc = "join"
    /\ done # <<>>
    /\ done' = Tail(done)
    /\ pc' = "return"
    /\ UNCHANGED <<op, expected, labels, sample, pushed, m, closed, result, allLabels,
                   wpc, assertVars, ret, reporter>>

\* return result (collect.go:163): the caller continues after its call of
\* CollectMetrics.
Return ==
    /\ pc = "return"
    /\ allLabels' = result
    /\ pc' = CASE op = "CollectMetrics" -> "done"
               [] op = "GetMetric" -> "scan"
               [] OTHER -> "filter"
    /\ ret' = IF op = "CollectMetrics" THEN Ptr(result) ELSE ret
    /\ UNCHANGED <<op, expected, labels, sample, pushed, m, closed, done, result,
                   wpc, assertVars, reporter>>

\* The filtering loop of the assertions (collect.go:34-39, the same at
\* 71-76): the samples kept and the Reporter calls matches made.
RECURSIVE filterFrom(_, _, _)
filterFrom(all, expectedLabels, i) ==
    IF i > Len(all) THEN [filtered |-> <<>>, events |-> <<>>]
    ELSE LET r    == matches(all[i], expectedLabels)
             rest == filterFrom(all, expectedLabels, i + 1)
         IN  [filtered |-> (IF r.ret THEN <<all[i]>> ELSE <<>>) \o rest.filtered,
              events   |-> r.events \o rest.events]

filterLabels(all, expectedLabels) == filterFrom(all, expectedLabels, 1)

\* AssertEquals(t, expected, metric, labels...) is called.
CallAssertEquals ==
    /\ pc = "idle"
    /\ \E e \in ExpectedValues, f \in Filters :
          /\ expected' = e
          /\ labels' = f
    /\ op' = "AssertEquals"
    /\ pc' = "go"
    /\ UNCHANGED <<sample, collectVars, assertVars, ret, reporter>>

\* collect.go:34-39
AssertEqualsFilter ==
    /\ op = "AssertEquals"
    /\ pc = "filter"
    /\ LET r == filterLabels(allLabels, labels)
       IN  /\ filteredLabels' = r.filtered
           /\ reporter' = reporter \o r.events
    /\ pc' = "aggregate"
    /\ UNCHANGED <<op, expected, labels, sample, collectVars, idx, actualValue, ret>>

\* One iteration of the loop at collect.go:42-53.  t.Fatal does not return
\* (testing.T, which Reporter mirrors, ends the calling goroutine).
AssertEqualsAggregateNoAbort ==
    /\ op = "AssertEquals"
    /\ pc = "aggregate"
    /\ idx < Len(filteredLabels)
    /\ LET s == filteredLabels[idx + 1]
       IN  CASE s.Counter # Nil ->
                   /\ actualValue' = actualValue + Deref(s.Counter)
                   /\ UNCHANGED reporter
             [] s.Counter = Nil /\ s.Gauge # Nil ->
                   /\ actualValue' = actualValue + Deref(s.Gauge)
                   /\ UNCHANGED reporter
             [] OTHER ->
                   /\ reporter' = Append(reporter, EvFatalType)
                   /\ UNCHANGED actualValue
    /\ idx' = idx + 1
    /\ UNCHANGED <<op, pc, expected, labels, sample, collectVars, filteredLabels, ret>>

AssertEqualsAggregateNoGauge ==
    /\ op = "AssertEquals"
    /\ pc = "aggregate"
    /\ idx < Len(filteredLabels)
    /\ LET s == filteredLabels[idx + 1]
       IN  CASE s.Counter # Nil ->
                   /\ actualValue' = actualValue + Deref(s.Counter)
                   /\ idx' = idx + 1
                   /\ UNCHANGED <<pc, reporter>>
             [] s.Counter = Nil /\ s.Gauge # Nil ->
                   /\ idx' = idx + 1
                   /\ UNCHANGED <<actualValue, pc, reporter>>
             [] OTHER ->
                   /\ reporter' = Append(reporter, EvFatalType)
                   /\ pc' = "aborted"
                   /\ UNCHANGED <<actualValue, idx>>
    /\ UNCHANGED <<op, expected, labels, sample, collectVars, filteredLabels, ret>>

AssertEqualsAggregate ==
    /\ op = "AssertEquals"
    /\ pc = "aggregate"
    /\ idx < Len(filteredLabels)
    /\ LET s == filteredLabels[idx + 1]
       IN  CASE s.Counter # Nil ->
                   /\ actualValue' = actualValue + Deref(s.Counter)
                   /\ idx' = idx + 1
                   /\ UNCHANGED <<pc, reporter>>
             [] s.Counter = Nil /\ s.Gauge # Nil ->
                   /\ actualValue' = actualValue + Deref(s.Gauge)
                   /\ idx' = idx + 1
                   /\ UNCHANGED <<pc, reporter>>
             [] OTHER ->
                   /\ reporter' = Append(reporter, EvFatalType)
                   /\ pc' = "aborted"
                   /\ UNCHANGED <<actualValue, idx>>
    /\ UNCHANGED <<op, expected, labels, sample, collectVars, filteredLabels, ret>>

\* collect.go:55-57
AssertEqualsCompare ==
    /\ op = "AssertEquals"
    /\ pc = "aggregate"
    /\ idx = Len(filteredLabels)
    /\ reporter' = IF expected # actualValue THEN Append(reporter, EvMismatch) ELSE reporter
    /\ pc' = "done"
    /\ UNCHANGED <<op, expected, labels, sample, collectVars, assertVars, ret>>

\* AssertSummarySampleCount(t, expected, metric, labels...) is called.
CallAssertSummarySampleCount ==
    /\ pc = "idle"
    /\ \E e \in ExpectedValues, f \in Filters :
          /\ expected' = e
          /\ labels' = f
    /\ op' = "AssertSummarySampleCount"
    /\ pc' = "go"
    /\ UNCHANGED <<sample, collectVars, assertVars, ret, reporter>>

\* collect.go:71-76
AssertSummaryFilter ==
    /\ op = "AssertSummarySampleCount"
    /\ pc = "filter"
    /\ LET r == filterLabels(allLabels, labels)
       IN  /\ filteredLabels' = r.filtered
           /\ reporter' = reporter \o r.events
    /\ pc' = "aggregate"
    /\ UNCHANGED <<op, expected, labels, sample, collectVars, idx, actualValue, ret>>

\* One iteration of the loop at collect.go:79-85.
AssertSummaryAggregate ==
    /\ op = "AssertSummarySampleCount"
    /\ pc = "aggregate"
    /\ idx < Len(filteredLabels)
    /\ LET s == filteredLabels[idx + 1]
       IN  IF s.Summary = Nil
           THEN /\ reporter' = Append(reporter, EvFatalType)
                /\ pc' = "aborted"
                /\ UNCHANGED <<actualValue, idx>>
           ELSE /\ actualValue' = actualValue + Deref(s.Summary)
                /\ idx' = idx + 1
                /\ UNCHANGED <<pc, reporter>>
    /\ UNCHANGED <<op, expected, labels, sample, collectVars, filteredLabels, ret>>

\* collect.go:87-89
AssertSummaryCompareSilent ==
    /\ op = "AssertSummarySampleCount"
    /\ pc = "aggregate"
    /\ idx = Len(filteredLabels)
    /\ pc' = "done"
    /\ UNCHANGED <<op, expected, labels, sample, collectVars, assertVars, ret, reporter>>

AssertSummaryCompare ==
    /\ op = "AssertSummarySampleCount"
    /\ pc = "aggregate"
    /\ idx = Len(filteredLabels)
    /\ reporter' = IF expected # actualValue THEN Append(reporter, EvMismatch) ELSE reporter
    /\ pc' = "done"
    /\ UNCHANGED <<op, expected, labels, sample, collectVars, assertVars, ret>>

\* The loop of GetMetric (collect.go:102-108): the returned pointer and the
\* Reporter calls matches made.
RECURSIVE firstMatchFrom(_, _, _)
firstMatchFrom(metrics, expectedLabels, i) ==
    IF i > Len(metrics) THEN [ret |-> Nil, events |-> <<>>]
    ELSE LET r == matches(metrics[i], expectedLabels)
         IN  IF r.ret
             THEN [ret |-> Ptr(metrics[i]), events |-> r.events]
             ELSE LET rest == firstMatchFrom(metrics, expectedLabels, i + 1)
                  IN  [ret |-> rest.ret, events |-> r.events \o rest.events]

RECURSIVE lastMatchFrom(_, _, _)
lastMatchFrom(metrics, expectedLabels, i) ==
    IF i > Len(metrics) THEN [ret |-> Nil, events |-> <<>>]
    ELSE LET r    == matches(metrics[i], expectedLabels)
             rest == lastMatchFrom(metrics, expectedLabels, i + 1)
         IN  [ret    |-> IF rest.ret # Nil THEN rest.ret
                         ELSE IF r.ret THEN Ptr(metrics[i]) ELSE Nil,
              events |-> r.events \o rest.events]

lastMatch(metrics, expectedLabels) == lastMatchFrom(metrics, expectedLabels, 1)

firstMatch(metrics, expectedLabels) == firstMatchFrom(metrics, expectedLabels, 1)

\* GetMetric(t, metric, expectedLabels...) is called.
CallGetMetric ==
    /\ pc = "idle"
    /\ \E f \in Filters : labels' = f
    /\ op' = "GetMetric"
    /\ pc' = "go"
    /\ UNCHANGED <<expected, sample, collectVars, assertVars, ret, reporter>>

\* collect.go:102-108
GetMetricScan ==
    /\ op = "GetMetric"
    /\ pc = "scan"
    /\ LET r == firstMatch(allLabels, labels)
       IN  /\ ret' = Ptr(r.ret)
           /\ reporter' = reporter \o r.events
    /\ pc' = "done"
    /\ UNCHANGED <<op, expected, labels, sample, collectVars, assertVars>>

\* The steps of the calling goroutine and of the worker goroutine.
Caller ==
    \/ Go \/ Push \/ CollectReturn \/ Close \/ Join \/ Return
    \/ AssertEqualsFilter \/ AssertEqualsAggregate \/ AssertEqualsCompare
    \/ AssertSummaryFilter \/ AssertSummaryAggregate \/ AssertSummaryCompare
    \/ GetMetricScan
Worker == WorkerConvert \/ WorkerExit

Next ==
    \/ CallMatches
    \/ CallCollectMetrics
    \/ CallAssertEquals
    \/ CallAssertSummarySampleCount
    \/ CallGetMetric
    \/ Go
    \/ Push
    \/ CollectReturn
    \/ Close
    \/ WorkerConvert
    \/ WorkerExit
    \/ Join
    \/ Return
    \/ AssertEqualsFilter
    \/ AssertEqualsAggregate
    \/ AssertEqualsCompare
    \/ AssertSummaryFilter
    \/ AssertSummaryAggregate
    \/ AssertSummaryCompare
    \/ GetMetricScan

Spec == Init /\ [][Next]_vars

\* A call of CollectMetrics on its own, with the fairness of the Go
\* scheduler: a goroutine that can take a step eventually takes one.
NextCollect ==
    \/ CallCollectMetrics
    \/ Go
    \/ Push
    \/ CollectReturn
    \/ Close
    \/ WorkerConvert
    \/ WorkerExit
    \/ Join
    \/ Return

CollectSpec == Init /\ [][NextCollect]_vars /\ WF_vars(Caller) /\ WF_vars(Worker)

-----------------------------------------------------------------------------
(* Properties.  The definitions below state what the claims say, without   *)
(* using the operators that model the code.                                *)

Range(s) == {s[i] : i \in DOMAIN s}
Count(s, e) == Cardinality({i \in DOMAIN s : s[i] = e})

HasEq(e) == \E k \in DOMAIN e : e[k] = "="
WellFormed(F) == \A i \in DOMAIN F : HasEq(F[i])

\* Entry e, split at its first "=", names a label of S with that name and value.
EntryHolds(S, e) ==
    \E k \in DOMAIN e :
        /\ e[k] = "="
        /\ \A j \in 1..(k - 1) : e[j] # "="
        /\ \E q \in DOMAIN S.Label :
              /\ S.Label[q].Name # Nil
              /\ S.Label[q].Value # Nil
              /\ S.Label[q].Name[1] = SubSeq(e, 1, k - 1)
              /\ S.Label[q].Value[1] = SubSeq(e, k + 1, Len(e))

Satisfies(S, F) == \A i \in DOMAIN F : EntryHolds(S, F[i])

CollectingOps == {"CollectMetrics", "AssertEquals", "AssertSummarySampleCount", "GetMetric"}
AssertOps == {"AssertEquals", "AssertSummarySampleCount"}

\* The caller is past `<-done`.
Joined == op \in CollectingOps /\ pc \notin {"idle", "go", "collect", "close", "join"}
\* CollectMetrics has returned.
Returned == Joined /\ pc # "return"
\* The call has ended, normally or through t.Fatal.
Finished == pc \in {"done", "aborted"}

Converted(handles) == [i \in DOMAIN handles |-> handles[i].out]
Failures(handles) == Cardinality({i \in DOMAIN handles : handles[i].err})

MatchingSamples == SelectSeq(allLabels, LAMBDA s : Satisfies(s, labels))
NoneSatisfies == \A i \in DOMAIN allLabels : ~Satisfies(allLabels[i], labels)

CounterOrGauge(s) == s.Counter # Nil \/ s.Gauge # Nil
NumericValue(s) ==
    IF s.Counter # Nil THEN s.Counter[1] ELSE IF s.Gauge # Nil THEN s.Gauge[1] ELSE 0
SampleCount(s) == IF s.Summary # Nil THEN s.Summary[1] ELSE 0

RECURSIVE ValueSum(_, _)
ValueSum(ms, n) == IF n = 0 THEN 0 ELSE ValueSum(ms, n - 1) + NumericValue(ms[n])

RECURSIVE SampleCountSum(_, _)
SampleCountSum(ms, n) == IF n = 0 THEN 0 ELSE SampleCountSum(ms, n - 1) + SampleCount(ms[n])

\* The sample lacks the payload the running assertion needs.
WrongType(s) == IF op = "AssertEquals" THEN ~CounterOrGauge(s) ELSE s.Summary = Nil
FirstWrongType(ms) ==
    CHOOSE k \in DOMAIN ms : WrongType(ms[k]) /\ \A j \in 1..(k - 1) : ~WrongType(ms[j])

ErrorEvents == {EvCollectError, EvFormatError, EvFatalType, EvMismatch}

\* C1: for a filter whose entries all contain "=", matches returns true iff
\* every entry, split at its first "=", names a label of the sample whose
\* name and value are both present and equal to it; extra labels are
\* ignored, labels with a missing name or value never count, and the empty
\* filter matches every sample.
C1_MatchesIffEveryPairPresent ==
    (op = "matches" /\ pc = "done" /\ WellFormed(labels))
        => (Deref(ret) <=> Satisfies(sample, labels))

C1_Witness ==
    /\ op = "matches" /\ pc = "done"
    /\ Len(labels) >= 1 /\ WellFormed(labels)
    /\ Deref(ret) = TRUE
    /\ Len(sample.Label) > Len(labels)
    /\ \E q \in DOMAIN sample.Label : sample.Label[q].Name = Nil

\* C2 (as claimed): the list CollectMetrics returns has as many samples as
\* handles were pushed minus those whose Write failed.
C2_LengthExcludesFailedDecodes ==
    Returned => Len(allLabels) = Len(pushed) - Failures(pushed)

\* C3: CollectMetrics gets past its join only when the channel is closed and
\* the one worker has converted every pushed handle and finished; what it
\* returns is the converted samples in push order; and the worker never
\* changes the result once the caller is past the join.
C3_ReturnsAfterWorkerDrained ==
    /\ [](Joined => /\ closed
                    /\ wpc = "finished"
                    /\ m = Nil
                    /\ result = Converted(pushed))
    /\ [](Returned => allLabels = Converted(pushed))
    /\ [][Joined => (result' = result /\ pushed' = pushed)]_vars

C3_Witness ==
    /\ op = "CollectMetrics" /\ pc = "done"
    /\ Len(pushed) = 2
    /\ pushed[1] # pushed[2]
    /\ Deref(ret) = <<pushed[1].out, pushed[2].out>>

\* C4: under fair scheduling of the caller and the worker, a call of
\* CollectMetrics on a collector that pushes finitely many handles returns.
C4_CollectMetricsReturns == (pc = "go") ~> (pc = "done" /\ ret # Nil)

C4_Witness ==
    /\ op = "CollectMetrics" /\ pc = "return"
    /\ wpc = "finished"
    /\ Len(pushed) >= 1

\* C5: when every collected sample matching the filter carries a counter or
\* a gauge, AssertEquals ends normally with the sum of the values of exactly
\* the matching samples, and reports the value mismatch iff that sum differs
\* from expected.
C5_AssertEqualsSumsMatching ==
    (/\ op = "AssertEquals"
     /\ Finished
     /\ \A i \in DOMAIN MatchingSamples : CounterOrGauge(MatchingSamples[i]))
        => /\ pc = "done"
           /\ actualValue = ValueSum(MatchingSamples, Len(MatchingSamples))
           /\ (EvMismatch \in Range(reporter) <=> actualValue # expected)

\* {method:GET}=3 and {method:POST}=2, expected 1 with "method=GET": fails
\* with actual 3.
C5_Witness ==
    /\ op = "AssertEquals" /\ pc = "done"
    /\ allLabels = <<Metric(methodGET, Ptr(3), Nil, Nil), Metric(methodPOST, Ptr(2), Nil, Nil)>>
    /\ labels = << <<"m", "=", "G">> >>
    /\ expected = 1
    /\ actualValue = 3
    /\ EvMismatch \in Range(reporter)

\* C6: a matching sample of the wrong type is fatal: the assertion stops at
\* the first such sample in adapter order, having aggregated only the
\* matching samples before it, and reports no value mismatch.
C6_TypeMismatchAbortsAtFirst ==
    (op \in AssertOps /\ Returned)
        => /\ (EvFatalType \in Range(reporter) => pc = "aborted")
           /\ (Finished /\ \E k \in DOMAIN MatchingSamples : WrongType(MatchingSamples[k]))
                 => LET k == FirstWrongType(MatchingSamples)
                    IN  /\ pc = "aborted"
                        /\ idx = k - 1
                        /\ actualValue =
                              IF op = "AssertEquals"
                              THEN ValueSum(MatchingSamples, k - 1)
                              ELSE SampleCountSum(MatchingSamples, k - 1)
                        /\ Count(reporter, EvFatalType) = 1
                        /\ reporter[Len(reporter)] = EvFatalType
                        /\ EvMismatch \notin Range(reporter)

C6_Witness ==
    /\ op = "AssertSummarySampleCount" /\ pc = "aborted"
    /\ Len(MatchingSamples) = 2
    /\ idx = 1
    /\ actualValue = 3
    /\ MatchingSamples[2].Summary = Nil

\* C7: when every collected sample matching the filter carries a summary,
\* AssertSummarySampleCount ends normally with the sum of the sample counts
\* of exactly the matching samples, and reports the mismatch iff that sum
\* differs from expected.
C7_SummarySampleCountSumsMatching ==
    (/\ op = "AssertSummarySampleCount"
     /\ Finished
     /\ \A i \in DOMAIN MatchingSamples : MatchingSamples[i].Summary # Nil)
        => /\ pc = "done"
           /\ actualValue = SampleCountSum(MatchingSamples, Len(MatchingSamples))
           /\ (EvMismatch \in Range(reporter) <=> actualValue # expected)

\* One summary {op:write} with 7 samples, expected 7 with "op=write": passes.
C7_Witness ==
    /\ op = "AssertSummarySampleCount" /\ pc = "done"
    /\ allLabels = <<Metric(opWrite, Nil, Nil, Ptr(7))>>
    /\ labels = << <<"o", "=", "w">> >>
    /\ expected = 7
    /\ actualValue = 7
    /\ EvMismatch \notin Range(reporter)

\* What GetMetric is to return: the first collected sample satisfying the
\* filter, nil if there is none.
FirstSatisfying ==
    IF MatchingSamples = <<>> THEN Nil ELSE Ptr(MatchingSamples[1])

\* C8 (as claimed): GetMetric returns the first collected sample satisfying
\* the filter, nil if none does; and with a well-formed filter and no match
\* nothing is reported as an error or a fatal.
C8_NoMatchReportsNoError ==
    (op = "GetMetric" /\ pc = "done")
        => /\ Deref(ret) = FirstSatisfying
           /\ (WellFormed(labels) /\ Deref(ret) = Nil)
                 => Range(reporter) \cap ErrorEvents = {}

\* C8 (amended): as claimed, except that the call still carries the
\* decode-failure error of each handle whose Write failed; the missing
\* match adds one diagnostic log per collected sample and no error.
C8_NoMatchAddsNoError ==
    (op = "GetMetric" /\ pc = "done")
        => /\ Deref(ret) = FirstSatisfying
           /\ (WellFormed(labels) /\ Deref(ret) = Nil)
                 => /\ Range(reporter) \subseteq {EvCollectError, EvNotFound}
                    /\ Count(reporter, EvCollectError) = Failures(pushed)
                    /\ Count(reporter, EvNotFound) = Len(allLabels)

C8_Witness ==
    /\ op = "GetMetric" /\ pc = "done"
    /\ Len(labels) >= 1 /\ WellFormed(labels)
    /\ Len(allLabels) = 2
    /\ Failures(pushed) = 1
    /\ Deref(ret) = Nil

FirstMalformed(F) ==
    CHOOSE i \in DOMAIN F : ~HasEq(F[i]) /\ \A j \in 1..(i - 1) : HasEq(F[j])

\* C9 (as claimed): for a filter with an entry without "=", matches reports
\* the non-fatal format error and returns false, wherever that entry stands.
C9_MalformedAlwaysReported ==
    (op = "matches" /\ pc = "done" /\ ~WellFormed(labels))
        => /\ Deref(ret) = FALSE
           /\ EvFormatError \in Range(reporter)

\* C9 (amended): for such a filter matches returns false; it reports the
\* format error iff the sample satisfies every entry before the first
\* malformed one, and otherwise only logs the first unsatisfied entry.
C9_MalformedReportedWhenReached ==
    (op = "matches" /\ pc = "done" /\ ~WellFormed(labels))
        => /\ Deref(ret) = FALSE
           /\ reporter =
                 IF Satisfies(sample, SubSeq(labels, 1, FirstMalformed(labels) - 1))
                 THEN <<EvFormatError>>
                 ELSE <<EvNotFound>>

C9_Witness ==
    /\ op = "matches" /\ pc = "done"
    /\ Len(labels) = 2
    /\ HasEq(labels[1]) /\ ~HasEq(labels[2])
    /\ EntryHolds(sample, labels[1])
    /\ Deref(ret) = FALSE
    /\ reporter = <<EvFormatError>>

\* C10 (as claimed): if no collected sample satisfies a well-formed filter,
\* the assertions aggregate to 0, never report fatal, report the mismatch iff
\* expected is not 0, and report nothing else but diagnostic logs.
C10_NoMatchOnlyLogs ==
    (op \in AssertOps /\ Returned /\ WellFormed(labels) /\ NoneSatisfies)
        => /\ pc # "aborted"
           /\ actualValue = 0
           /\ (Finished => (EvMismatch \in Range(reporter) <=> expected # 0))
           /\ Range(reporter) \subseteq {EvMismatch, EvNotFound}

\* C10 (amended): as claimed, except that the Reporter also holds the
\* decode-failure error of each handle whose Write failed.
C10_NoMatchLogsAndDecodeErrors ==
    (op \in AssertOps /\ Returned /\ WellFormed(labels) /\ NoneSatisfies)
        => /\ pc # "aborted"
           /\ actualValue = 0
           /\ (Finished => (EvMismatch \in Range(reporter) <=> expected # 0))
           /\ Range(reporter) \subseteq {EvMismatch, EvNotFound, EvCollectError}
           /\ Count(reporter, EvCollectError) = Failures(pushed)
           /\ (pc # "filter" => Count(reporter, EvNotFound) = Len(allLabels))

C10_Witness ==
    /\ op = "AssertEquals" /\ pc = "done"
    /\ Len(labels) >= 1 /\ WellFormed(labels)
    /\ Len(allLabels) = 2
    /\ NoneSatisfies
    /\ \E i \in DOMAIN allLabels : ~CounterOrGauge(allLabels[i])
    /\ expected = 0
    /\ EvMismatch \notin Range(reporter)

====
